---- MODULE Spec2Model ----
(***************************************************************************)
(* Model of src/main.py (Dashboard de Delitos): the load-time cleaning of  *)
(* the barrio / comuna columns, the two-tier matching of barrio names      *)
(* against the GeoJSON features for the choropleth, and the resolution of  *)
(* the comuna of a selected barrio.                                        *)
(*                                                                         *)
(* Text is a sequence of characters.  Characters are one-element names:    *)
(* ASCII characters stand for themselves, the others are                   *)
(*   "n_tilde" U+00F1, "N_TILDE" U+00D1, "u_acute" U+00FA,                 *)
(*   "U_ACUTE" U+00DA, "COMB_TILDE" U+0303, "COMB_ACUTE" U+0301,           *)
(*   "dotless_i" U+0131.                                                   *)
(***************************************************************************)
EXTENDS Integers, Sequences, FiniteSets, TLC

VARIABLES
    pc,                          \* position of the script / of the function under test
    csv,                         \* rows of the CSV that pass the sidebar filters
    geo,                         \* features of the downloaded GeoJSON (property lists)
    df_filtrado,                 \* rows after cargar_datos (barrio, comuna_display)
    delitos_por_barrio,          \* count table with its barrio_norm column
    feature_id,                  \* feature['id'] of every feature
    barrios_coincidentes,        \* current intersection
    delitos_por_barrio_filtrado, \* rows handed to the choropleth
    tier1_coincidentes,          \* the intersection computed at line 263
    tier2_ran,                   \* whether lines 270-302 were executed
    mapa,                        \* what the map section ended with
    e,                           \* the exception bound by line 338
    barrio_seleccionado,
    comunas_barrio,
    comuna_principal,
    comuna_barrio,
    comuna_data,
    aviso_multi,                 \* the st.warning of line 496 was shown
    comparativa,                 \* the comparison of lines 575-602 was drawn
    entrada,                     \* inputs of the canonicalisers under test
    salida                       \* their results

vars == <<pc, csv, geo, df_filtrado, delitos_por_barrio, feature_id,
          barrios_coincidentes, delitos_por_barrio_filtrado, tier1_coincidentes,
          tier2_ran, mapa, e, barrio_seleccionado, comunas_barrio, comuna_principal,
          comuna_barrio, comuna_data, aviso_multi, comparativa, entrada, salida>>

mapVars == <<feature_id, barrios_coincidentes, delitos_por_barrio_filtrado,
             tier1_coincidentes, tier2_ran, mapa, e, delitos_por_barrio>>

resVars == <<barrio_seleccionado, comunas_barrio, comuna_principal, comuna_barrio,
             comuna_data, aviso_multi, comparativa>>

canonVars == <<entrada, salida>>

(***************************************************************************)
(* Bounds.                                                                 *)
(***************************************************************************)
MaxRows == 2

MaxRecords == 3

MaxFeatures == 2

MaxLen == 2

(***************************************************************************)
(* Characters and Python's str operations.                                 *)
(***************************************************************************)
LowerAscii == {"a", "i", "n", "p", "u", "x"}

UpperAscii == {"A", "I", "N", "P", "U", "X"}

Digits == {"0", "1", "2", "3", "4", "5", "6", "7", "8", "9"}

AsciiChars == LowerAscii \cup UpperAscii \cup Digits \cup {" ", "-", "."}

ToUpperAscii(c) ==
    CASE c = "a" -> "A" [] c = "i" -> "I" [] c = "n" -> "N"
      [] c = "p" -> "P" [] c = "u" -> "U" [] c = "x" -> "X"

\* str.upper() of one character (full Unicode case mapping).
UpperChar(c) ==
    CASE c \in LowerAscii -> ToUpperAscii(c)
      [] c = "n_tilde"    -> "N_TILDE"
      [] c = "u_acute"    -> "U_ACUTE"
      [] c = "dotless_i"  -> "I"
      [] OTHER            -> c

\* unicodedata.normalize('NFD', c) of one character.
NfdChar(c) ==
    CASE c = "n_tilde" -> <<"n", "COMB_TILDE">>
      [] c = "N_TILDE" -> <<"N", "COMB_TILDE">>
      [] c = "u_acute" -> <<"u", "COMB_ACUTE">>
      [] c = "U_ACUTE" -> <<"U", "COMB_ACUTE">>
      [] OTHER         -> <<c>>

IsSpace(c) == c = " "

IsAscii(c) == c \in AsciiChars

\* the characters kept by re.sub(r'[^A-Z0-9]', '', ...)
IsUpperAlnum(c) == c \in UpperAscii \cup Digits

RECURSIVE Flatten(_)
Flatten(ss) == IF ss = <<>> THEN <<>> ELSE Head(ss) \o Flatten(Tail(ss))

upper(s) == [i \in 1..Len(s) |-> UpperChar(s[i])]

NFD(s) == Flatten([i \in 1..Len(s) |-> NfdChar(s[i])])

\* .encode('ascii', 'ignore').decode('ascii')
encode_ascii_ignore(s) == SelectSeq(s, IsAscii)

re_sub_non_alnum(s) == SelectSeq(s, IsUpperAlnum)

RECURSIVE lstrip(_)
lstrip(s) == IF s # <<>> /\ IsSpace(Head(s)) THEN lstrip(Tail(s)) ELSE s

RECURSIVE rstrip(_)
rstrip(s) ==
    IF s # <<>> /\ IsSpace(s[Len(s)]) THEN rstrip(SubSeq(s, 1, Len(s) - 1)) ELSE s

strip(s) == rstrip(lstrip(s))

(***************************************************************************)
(* Values of a cell or of a GeoJSON property: text, a number, or NaN.      *)
(***************************************************************************)
Str(s) == [t |-> "str", s |-> s, n |-> 0]

Int_(n) == [t |-> "int", s |-> <<>>, n |-> n]

Float(n) == [t |-> "float", s |-> <<>>, n |-> n]

NaN == [t |-> "nan", s |-> <<>>, n |-> 0]

DigitChar(d) ==
    CASE d = 0 -> "0" [] d = 1 -> "1" [] d = 2 -> "2" [] d = 3 -> "3" [] d = 4 -> "4"
      [] d = 5 -> "5" [] d = 6 -> "6" [] d = 7 -> "7" [] d = 8 -> "8" [] d = 9 -> "9"

RECURSIVE NatStr(_)
NatStr(n) == IF n < 10 THEN <<DigitChar(n)>> ELSE NatStr(n \div 10) \o <<DigitChar(n % 10)>>

IntStr(n) == IF n < 0 THEN <<"-">> \o NatStr(-n) ELSE NatStr(n)

\* Python's str(valor)
str(v) ==
    CASE v.t = "str"   -> v.s
      [] v.t = "int"   -> IntStr(v.n)
      [] v.t = "float" -> IntStr(v.n) \o <<".", "0">>
      [] v.t = "nan"   -> <<"n", "a", "n">>

isinstance_str(v) == v.t = "str"

isna(v) == v.t = "nan"

\* valor == 0
eq_zero(v) == v.t \in {"int", "float"} /\ v.n = 0

(***************************************************************************)
(* cargar_datos: cleaning of the comuna and barrio columns.                *)
(***************************************************************************)
SinDatos == <<"S", "i", "n", " ", "d", "a", "t", "o", "s">>

NoDisponible == <<"N", "o", " ", "d", "i", "s", "p", "o", "n", "i", "b", "l", "e">>

IsDigits(s) == s # <<>> /\ \A i \in 1..Len(s) : s[i] \in Digits

DigitVal(c) == CHOOSE d \in 0..9 : DigitChar(d) = c

RECURSIVE ParseNat(_)
ParseNat(s) ==
    IF s = <<>> THEN 0 ELSE 10 * ParseNat(SubSeq(s, 1, Len(s) - 1)) + DigitVal(s[Len(s)])

\* pd.to_numeric(cell, errors='coerce') of one cell
to_numeric(v) ==
    CASE v.t \in {"int", "float"}                  -> Float(v.n)
      [] v.t = "str" /\ IsDigits(strip(v.s))       -> Float(ParseNat(strip(v.s)))
      [] OTHER                                     -> NaN

\* str.replace(old, '') for a two-character old
RECURSIVE replace2(_, _)
replace2(s, old) ==
    IF Len(s) < 2 THEN s
    ELSE IF SubSeq(s, 1, 2) = old THEN replace2(SubSeq(s, 3, Len(s)), old)
    ELSE <<Head(s)>> \o replace2(Tail(s), old)

\* re.match(r'CC-\d+', valor)
re_match_CC(s) ==
    Len(s) >= 4 /\ SubSeq(s, 1, 3) = <<"C", "C", "-">> /\ s[4] \in Digits

\* re.search(r'(\d+)', valor).group(1), for a valor that matches CC-\d+
RECURSIVE leading_digits(_)
leading_digits(s) ==
    IF s # <<>> /\ Head(s) \in Digits THEN <<Head(s)>> \o leading_digits(Tail(s))
    ELSE <<>>

limpiar_comuna(valor) ==
    IF isna(valor) \/ eq_zero(valor) THEN SinDatos
    ELSE IF isinstance_str(valor) /\ re_match_CC(valor.s)
         THEN leading_digits(SubSeq(valor.s, 4, Len(valor.s)))
    ELSE replace2(str(valor), <<".", "0">>)

limpiar_barrio(valor) ==
    IF isna(valor) \/ eq_zero(valor) \/ strip(str(valor)) = <<"0">> THEN SinDatos
    ELSE strip(str(valor))

cargar_datos(rows) ==
    [i \in 1..Len(rows) |->
        [barrio         |-> limpiar_barrio(rows[i].barrio),
         comuna_display |-> limpiar_comuna(to_numeric(rows[i].comuna))]]

(***************************************************************************)
(* The two canonicalisations of a place name.                              *)
(***************************************************************************)
\* line 255: .str.upper().str.strip() of one element (NaN for a non-string)
barrio_norm_tier1(v) ==
    IF isinstance_str(v) THEN Str(strip(upper(v.s))) ELSE NaN

\* lines 278-285
normalizar_texto(texto) ==
    IF isinstance_str(texto)
    THEN re_sub_non_alnum(upper(encode_ascii_ignore(NFD(texto.s))))
    ELSE upper(str(texto))

(***************************************************************************)
(* Count tables and selection lists over the filtered rows.                *)
(***************************************************************************)
Range(f) == {f[i] : i \in DOMAIN f}

\* .size() of one group
size_barrio(df, b) == Cardinality({i \in 1..Len(df) : df[i].barrio = b})

size_comuna(df, c) == Cardinality({i \in 1..Len(df) : df[i].comuna_display = c})

\* line 226: df_filtrado[barrio != "Sin datos"].groupby('barrio').size()
groupby_barrio_mut(df) ==
    {[barrio |-> b, cantidad |-> 0] : b \in {r.barrio : r \in Range(df)} \ {SinDatos}}

groupby_barrio(df) ==
    LET kept == SelectSeq(df, LAMBDA r : r.barrio # SinDatos)
    IN  {[barrio   |-> b,
          cantidad |-> size_barrio(kept, b)] :
            b \in {r.barrio : r \in Range(kept)}}

\* lines 366-368: delitos_por_comuna
groupby_comuna(df) ==
    LET kept == SelectSeq(df, LAMBDA r : r.comuna_display # SinDatos)
    IN  {[comuna_display |-> c,
          cantidad       |-> size_comuna(kept, c)] :
            c \in {r.comuna_display : r \in Range(kept)}}

\* lines 389-390 and 432-433 (the 'nan' text is never a comuna_display)
comunas_lista(df) ==
    {r.comuna_display : r \in Range(df)} \ {SinDatos, <<"n", "a", "n">>}

\* line 472
barrios_lista(df) == {r.barrio : r \in Range(df)} \ {SinDatos}

(***************************************************************************)
(* The GeoJSON: a feature is its property list, in the order of the dict.  *)
(***************************************************************************)
\* line 248 reads the first five features
Muestra == 5

\* 'barrio' in k.lower() or 'nombre' in k.lower(), for the keys of the model
key_names_barrio(k) == k \in {"BARRIO", "nombre"}

has_prop(feature, k) == \E j \in 1..Len(feature) : feature[j][1] = k

prop(feature, k) ==
    feature[CHOOSE j \in 1..Len(feature) : feature[j][1] = k][2]

\* lines 240-245, for a GeoJSON whose first feature has a property
barrio_key(g) ==
    LET keys == [j \in 1..Len(g[1]) |-> g[1][j][1]]
        hits == SelectSeq(keys, key_names_barrio)
    IN  IF hits # <<>> THEN Head(hits) ELSE Head(keys)

\* lines 240-252 raise (IndexError, KeyError, AttributeError)
tier1_raises(g) ==
    \/ g = <<>>
    \/ g[1] = <<>>
    \/ \E i \in 1..Len(g) :
          \/ ~has_prop(g[i], barrio_key(g))
          \/ ~isinstance_str(prop(g[i], barrio_key(g)))

\* the exception lines 240-252 raise, "none" when they raise none: line 240 on a
\* GeoJSON without features, line 245 on a first feature without properties,
\* line 248 on one of the first five features without the name property, then
\* line 252 feature by feature
RECURSIVE ids_error(_, _)
ids_error(g, i) ==
    IF i > Len(g) THEN "none"
    ELSE IF ~has_prop(g[i], barrio_key(g)) THEN "KeyError"
    ELSE IF ~isinstance_str(prop(g[i], barrio_key(g))) THEN "AttributeError"
    ELSE ids_error(g, i + 1)

tier1_error(g) ==
    IF g = <<>> THEN "IndexError"
    ELSE IF g[1] = <<>> THEN "IndexError"
    ELSE IF \E i \in 1..Len(g) : i <= Muestra /\ ~has_prop(g[i], barrio_key(g))
         THEN "KeyError"
    ELSE ids_error(g, 1)

\* line 252
feature_id_tier1(g) == [i \in 1..Len(g) |-> upper(prop(g[i], barrio_key(g)).s)]

\* line 289
feature_id_tier2(g) == [i \in 1..Len(g) |-> normalizar_texto(prop(g[i], barrio_key(g)))]

\* line 255
with_barrio_norm_tier1(tabla) ==
    {[barrio      |-> r.barrio,
      cantidad    |-> r.cantidad,
      barrio_norm |-> barrio_norm_tier1(Str(r.barrio)).s] : r \in tabla}

\* line 291
with_barrio_norm_tier2(tabla) ==
    {[barrio      |-> r.barrio,
      cantidad    |-> r.cantidad,
      barrio_norm |-> normalizar_texto(Str(r.barrio))] : r \in tabla}

\* lines 258-263 and 294-298
intersection_mut(ids, tabla) == {r.barrio_norm : r \in tabla}

intersection(ids, tabla) == Range(ids) \cap {r.barrio_norm : r \in tabla}

\* lines 266 and 302: tabla[tabla['barrio_norm'].isin(coincidentes)]
isin_mut(tabla, coincidentes) == tabla

isin(tabla, coincidentes) == {r \in tabla : r.barrio_norm \in coincidentes}

\* line 305
hay_datos_mapa_mut(filtrado) == TRUE

hay_datos_mapa(filtrado) == Cardinality(filtrado) > 0

\* line 269
sin_coincidencias_mut(coincidentes, filtrado) == TRUE

sin_coincidencias(coincidentes, filtrado) ==
    Cardinality(coincidentes) = 0 \/ Cardinality(filtrado) = 0

(***************************************************************************)
(* Idle values of the variables a specification does not use.              *)
(***************************************************************************)
NoTable == {}

NoSalida == [a1 |-> NaN, b1 |-> NaN, a2 |-> <<>>, b2 |-> <<>>, a11 |-> NaN, a22 |-> <<>>]

MapIdle ==
    /\ delitos_por_barrio = NoTable
    /\ feature_id = <<>>
    /\ barrios_coincidentes = {}
    /\ delitos_por_barrio_filtrado = NoTable
    /\ tier1_coincidentes = {}
    /\ tier2_ran = FALSE
    /\ e = "none"
    /\ mapa = "none"

ResIdle ==
    /\ barrio_seleccionado = <<>>
    /\ comunas_barrio = <<>>
    /\ comuna_principal = <<>>
    /\ comuna_barrio = <<>>
    /\ comuna_data = <<>>
    /\ aviso_multi = FALSE
    /\ comparativa = FALSE

(***************************************************************************)
(* DistrictResolver: lines 479-536.                                        *)
(***************************************************************************)
\* the rows of the selected barrio with a known comuna (lines 480-481, 487-488)
filas_barrio_mut(df, barrio) ==
    SelectSeq(df, LAMBDA r : upper(r.barrio) = upper(barrio) /\ r.comuna_display # SinDatos)

filas_barrio(df, barrio) ==
    SelectSeq(df, LAMBDA r : r.barrio = barrio /\ r.comuna_display # SinDatos)

\* Series.unique(): the distinct values in order of first appearance
RECURSIVE unique(_)
unique(col) ==
    IF col = <<>> THEN <<>>
    ELSE LET init == unique(SubSeq(col, 1, Len(col) - 1))
             last == col[Len(col)]
         IN  IF last \in Range(init) THEN init ELSE Append(init, last)

columna_comuna(filas) == [i \in 1..Len(filas) |-> filas[i].comuna_display]

\* line 481
unique_comunas_mut(df, barrio) ==
    unique([i \in 1..Len(SelectSeq(df, LAMBDA r : r.barrio = barrio)) |->
               SelectSeq(df, LAMBDA r : r.barrio = barrio)[i].comuna_display])

unique_comunas(df, barrio) == unique(columna_comuna(filas_barrio(df, barrio)))

\* value_counts() of lines 487-488, as a function comuna -> count
comuna_counts(df, barrio) ==
    [c \in Range(columna_comuna(filas_barrio(df, barrio))) |->
        size_comuna(filas_barrio(df, barrio), c)]

\* line 489: value_counts().idxmax().  value_counts sorts by count with an
\* unstable sort and idxmax takes the first maximum, so among equal counts
\* any of the comunas can come out.
idxmax_mut(counts) ==
    {c \in DOMAIN counts : \A d \in DOMAIN counts : counts[d] >= counts[c]}

idxmax(counts) ==
    {c \in DOMAIN counts : \A d \in DOMAIN counts : counts[d] <= counts[c]}

\* f"{count / total * 100:.1f}" in tenths of a percent (round half to even)
porcentaje(count, total) ==
    LET q == (count * 1000) \div total
        r == (count * 1000) % total
    IN  IF 2 * r > total \/ (2 * r = total /\ q % 2 = 1) THEN q + 1 ELSE q

\* lines 499-509
build_comuna_data(df, barrio) ==
    LET cs == unique_comunas(df, barrio)
        total == Len(filas_barrio(df, barrio))
    IN  [i \in 1..Len(cs) |->
            [Comuna     |-> cs[i],
             Cantidad   |-> Cardinality({j \in 1..Len(df) :
                               df[j].barrio = barrio /\ df[j].comuna_display = cs[i]}),
             Porcentaje |-> porcentaje(Cardinality({j \in 1..Len(df) :
                               df[j].barrio = barrio /\ df[j].comuna_display = cs[i]}),
                                       total)]]

\* line 495
es_multi(comunas) == Len(comunas) > 1

\* line 484
hay_comunas(comunas) == Len(comunas) > 0

\* line 575
comparar_mut(comuna) == TRUE

comparar(comuna) == comuna # NoDisponible

(***************************************************************************)
(* The script, top to bottom.                                              *)
(***************************************************************************)
\* lines 16-49 (and 79-85: the rows of csv are those the filters keep)
Load ==
    /\ pc = "start"
    /\ df_filtrado' = cargar_datos(csv)
    /\ pc' = "map"
    /\ UNCHANGED <<csv, geo, mapVars, resVars, canonVars>>

\* lines 224-269: the count table, the download, the Tier1 ids and keys, the
\* intersection, the filter and the test of line 269
MatchTier1 ==
    /\ pc = "map"
    /\ \E descargado \in BOOLEAN :
         IF ~descargado \/ tier1_raises(geo)
         THEN /\ pc' = "except"
              /\ e' = IF descargado THEN tier1_error(geo) ELSE "RequestException"
              /\ delitos_por_barrio' = groupby_barrio(df_filtrado)
              /\ UNCHANGED <<feature_id, barrios_coincidentes,
                             delitos_por_barrio_filtrado, tier1_coincidentes>>
         ELSE LET ids   == feature_id_tier1(geo)
                  tabla == with_barrio_norm_tier1(groupby_barrio(df_filtrado))
                  coinc == intersection(ids, tabla)
              IN  /\ feature_id' = ids
                  /\ delitos_por_barrio' = tabla
                  /\ barrios_coincidentes' = coinc
                  /\ tier1_coincidentes' = coinc
                  /\ delitos_por_barrio_filtrado' = isin(tabla, coinc)
                  /\ pc' = IF sin_coincidencias(coinc, isin(tabla, coinc))
                           THEN "tier2" ELSE "render"
                  /\ e' = e
    /\ UNCHANGED <<csv, geo, df_filtrado, tier2_ran, mapa, resVars, canonVars>>

\* lines 270-302
MatchTier2 ==
    /\ pc = "tier2"
    /\ LET ids   == feature_id_tier2(geo)
           tabla == with_barrio_norm_tier2(delitos_por_barrio)
           coinc == intersection(ids, tabla)
       IN  /\ feature_id' = ids
           /\ delitos_por_barrio' = tabla
           /\ barrios_coincidentes' = coinc
           /\ delitos_por_barrio_filtrado' = isin(tabla, coinc)
    /\ tier2_ran' = TRUE
    /\ pc' = "render"
    /\ UNCHANGED <<csv, geo, df_filtrado, tier1_coincidentes, mapa, e, resVars,
                   canonVars>>

\* lines 305-336
RenderChoropleth ==
    /\ pc = "render"
    /\ IF hay_datos_mapa(delitos_por_barrio_filtrado)
       THEN /\ mapa' = "choropleth"
            /\ pc' = "resolver"
            /\ e' = e
       ELSE /\ mapa' = "none"
            /\ pc' = "except"
            /\ e' = "Exception"
    /\ UNCHANGED <<csv, geo, df_filtrado, delitos_por_barrio, feature_id,
                   barrios_coincidentes, delitos_por_barrio_filtrado,
                   tier1_coincidentes, tier2_ran, resVars, canonVars>>

\* lines 338-361.  df_mapa exists only when df_filtrado is not empty (line 194);
\* whether a row has coordinates inside the box of lines 220-221 and whether
\* the CSV has a 'cantidad' column are inputs read here.
FallbackMap ==
    /\ pc = "except"
    /\ \E con_coordenadas \in BOOLEAN, con_cantidad \in BOOLEAN :
         IF df_filtrado = <<>>
         THEN /\ mapa' = "NameError"
              /\ pc' = "crashed"
         ELSE IF ~con_coordenadas
         THEN /\ mapa' = "sin_coordenadas"
              /\ pc' = "resolver"
         ELSE IF con_cantidad
         THEN /\ mapa' = "density"
              /\ pc' = "resolver"
         ELSE /\ mapa' = "ValueError"
              /\ pc' = "crashed"
    /\ UNCHANGED <<csv, geo, df_filtrado, delitos_por_barrio, feature_id,
                   barrios_coincidentes, delitos_por_barrio_filtrado,
                   tier1_coincidentes, tier2_ran, e, resVars, canonVars>>

\* lines 472-477: the selectbox over barrios_lista
SelectBarrio ==
    /\ pc = "resolver"
    /\ IF barrios_lista(df_filtrado) = {}
       THEN /\ pc' = "done"
            /\ UNCHANGED barrio_seleccionado
       ELSE /\ pc' = "resolve"
            /\ barrio_seleccionado' \in barrios_lista(df_filtrado)
    /\ UNCHANGED <<csv, geo, df_filtrado, mapVars, comunas_barrio, comuna_principal,
                   comuna_barrio, comuna_data, aviso_multi, comparativa, canonVars>>

\* lines 479-536
ResolveDistrict ==
    /\ pc = "resolve"
    /\ LET cs == unique_comunas(df_filtrado, barrio_seleccionado)
       IN  /\ comunas_barrio' = cs
           /\ IF hay_comunas(cs)
              THEN /\ comuna_principal' \in
                          idxmax(comuna_counts(df_filtrado, barrio_seleccionado))
                   /\ comuna_barrio' = comuna_principal'
                   /\ IF es_multi(cs)
                      THEN /\ aviso_multi' = TRUE
                           /\ comuna_data' =
                                  build_comuna_data(df_filtrado, barrio_seleccionado)
                      ELSE UNCHANGED <<aviso_multi, comuna_data>>
              ELSE /\ comuna_barrio' = NoDisponible
                   /\ UNCHANGED <<comuna_principal, aviso_multi, comuna_data>>
    /\ pc' = "compare"
    /\ UNCHANGED <<csv, geo, df_filtrado, mapVars, barrio_seleccionado, comparativa,
                   canonVars>>

\* lines 538-602
CompareSameDistrict ==
    /\ pc = "compare"
    /\ comparativa' = comparar(comuna_barrio)
    /\ pc' = "done"
    /\ UNCHANGED <<csv, geo, df_filtrado, mapVars, barrio_seleccionado, comunas_barrio,
                   comuna_principal, comuna_barrio, comuna_data, aviso_multi, canonVars>>

Next ==
    \/ Load
    \/ MatchTier1
    \/ MatchTier2
    \/ RenderChoropleth
    \/ FallbackMap
    \/ SelectBarrio
    \/ ResolveDistrict
    \/ CompareSameDistrict

(***************************************************************************)
(* Inputs.                                                                 *)
(***************************************************************************)
SeqsUpTo(S, n) == UNION {[1..k -> S] : k \in 0..n}

PA == <<"P", "A">>

\* barrio cells of the map specification: "PA", " pa", "NUN~ " (N, U, N with tilde,
\* space), "X", and a missing cell
BarriosMap ==
    {Str(PA), Str(<<" ", "p", "a">>), Str(<<"N", "U", "N_TILDE", " ">>), Str(<<"X">>), NaN}

\* features: named "Pa", "Núñ", without the name property, with a number as name
Feature(nombre) == <<<<"BARRIO", nombre>>, <<"COMUNA", Int_(14)>>>>

FeaturesMap ==
    {Feature(Str(<<"P", "a">>)), Feature(Str(<<"N", "u_acute", "n_tilde">>)),
     Feature(Int_(5)), <<<<"COMUNA", Int_(14)>>>>}

\* barrio and comuna cells of the resolver specification
BarriosRes == {Str(PA), Str(<<"p", "a">>), Str(<<" ", "P", "A">>), Str(<<" ">>)}

ComunasRes == {Int_(14), Int_(7), Int_(0)}

Init ==
    /\ pc = "start"
    /\ csv \in SeqsUpTo([barrio : BarriosMap, comuna : {Int_(14)}], MaxRows)
    /\ geo \in SeqsUpTo(FeaturesMap, MaxFeatures)
    /\ df_filtrado = <<>>
    /\ MapIdle
    /\ ResIdle
    /\ entrada = [a |-> NaN, b |-> NaN]
    /\ salida = NoSalida

InitRes ==
    /\ pc = "start"
    /\ csv \in SeqsUpTo([barrio : BarriosRes, comuna : ComunasRes], MaxRecords)
    /\ geo = <<Feature(Str(<<"P", "a">>))>>
    /\ df_filtrado = <<>>
    /\ MapIdle
    /\ ResIdle
    /\ entrada = [a |-> NaN, b |-> NaN]
    /\ salida = NoSalida

Spec == Init /\ [][Next]_vars

SpecRes == InitRes /\ [][Next]_vars

(***************************************************************************)
(* NameMatcher (specification Spec).                                       *)
(***************************************************************************)
\* every feature has its id: lines 251-252 completed
Tier1Done == feature_id # <<>>

\* the test of line 269 has been taken
Decided == Tier1Done /\ pc \notin {"start", "map", "tier2"}

RECURSIVE SumCantidad(_)
SumCantidad(tabla) ==
    IF tabla = {} THEN 0
    ELSE LET r == CHOOSE x \in tabla : TRUE
         IN  r.cantidad + SumCantidad(tabla \ {r})

\* C1: Tier2 runs exactly when the Tier1 intersection is empty (the script has
\* no force-fallback flag; its second test, an empty filtered table, never
\* differs from the first), and with a non-empty Tier1 intersection the final
\* match set and the filtered table are those of Tier1.
C1_Tier2IffTier1Empty ==
    /\ pc = "tier2" => tier1_coincidentes = {}
    /\ Decided =>
         /\ tier2_ran <=> tier1_coincidentes = {}
         /\ tier1_coincidentes # {} =>
              /\ barrios_coincidentes = tier1_coincidentes
              /\ feature_id = feature_id_tier1(geo)
              /\ delitos_por_barrio_filtrado =
                    {r \in delitos_por_barrio : r.barrio_norm \in tier1_coincidentes}

\* C1 witness: Tier1 found nothing, Tier2 ran and found a match
C1_Witness ==
    /\ Decided
    /\ tier2_ran
    /\ tier1_coincidentes = {}
    /\ barrios_coincidentes # {}

\* the rows the map section hands on (lines 307-333): the filtered table only
emitidos == delitos_por_barrio_filtrado

coverage_ratio ==
    LET total == SumCantidad(delitos_por_barrio)
    IN  IF total = 0 THEN <<0, 1>>
        ELSE <<SumCantidad(delitos_por_barrio_filtrado), total>>

unmatched == delitos_por_barrio \ delitos_por_barrio_filtrado

\* C3 as stated: coverage_ratio is in [0,1], is 1 iff unmatched is empty, is 0
\* iff matched is empty, and is 0 without data.
C3_CoverageAsStated ==
    Decided =>
        /\ 0 <= coverage_ratio[1] /\ coverage_ratio[1] <= coverage_ratio[2]
        /\ coverage_ratio[1] = coverage_ratio[2] <=> unmatched = {}
        /\ coverage_ratio[1] = 0 <=> delitos_por_barrio_filtrado = {}
        /\ delitos_por_barrio = {} => coverage_ratio[1] = 0

\* C3 amended: coverage_ratio is in [0,1], is 0 iff matched is empty, is 0
\* without data, and is 1 iff unmatched is empty and there is data.
C3_CoverageBounds ==
    Decided =>
        /\ 0 <= coverage_ratio[1] /\ coverage_ratio[1] <= coverage_ratio[2]
        /\ coverage_ratio[1] = coverage_ratio[2]
              <=> (unmatched = {} /\ delitos_por_barrio # {})
        /\ coverage_ratio[1] = 0 <=> delitos_por_barrio_filtrado = {}
        /\ delitos_por_barrio = {} => coverage_ratio[1] = 0

\* C3 witness: part of the count is matched, part is not
C3_Witness ==
    /\ Decided
    /\ 0 < coverage_ratio[1]
    /\ coverage_ratio[1] < coverage_ratio[2]

(***************************************************************************)
(* DistrictResolver and the sentinel (specification SpecRes).              *)
(***************************************************************************)
\* lines 479-536 have run for barrio_seleccionado
Resolved == comuna_barrio # <<>>

\* the known comunas among the loaded rows of barrio b, and their rows
known_comunas(b) ==
    {df_filtrado[i].comuna_display :
        i \in {j \in 1..Len(df_filtrado) : df_filtrado[j].barrio = b}} \ {SinDatos}

votes(b, c) ==
    Cardinality({i \in 1..Len(df_filtrado) :
        df_filtrado[i].barrio = b /\ df_filtrado[i].comuna_display = c})

first_row(b, c) ==
    CHOOSE i \in 1..Len(df_filtrado) :
        /\ df_filtrado[i].barrio = b /\ df_filtrado[i].comuna_display = c
        /\ \A j \in 1..(i - 1) :
              ~(df_filtrado[j].barrio = b /\ df_filtrado[j].comuna_display = c)

\* C6 as stated, for a selected barrio with a name: the comuna returned has the
\* highest count, and among comunas with that count it is the one met first in
\* row order.
C6_FirstEncounteredOnTie ==
    (Resolved /\ comuna_barrio # NoDisponible /\ barrio_seleccionado # <<>>) =>
        \A d \in known_comunas(barrio_seleccionado) :
            /\ votes(barrio_seleccionado, d) <= votes(barrio_seleccionado, comuna_principal)
            /\ votes(barrio_seleccionado, d) = votes(barrio_seleccionado, comuna_principal)
                 => first_row(barrio_seleccionado, comuna_principal)
                       <= first_row(barrio_seleccionado, d)

\* C6 amended: the comuna returned is one of the known comunas of the barrio
\* and none has a higher count; on a tie it is one of the tied comunas.
C6_MostFrequentDistrict ==
    (Resolved /\ known_comunas(barrio_seleccionado) # {}) =>
        /\ comuna_principal \in known_comunas(barrio_seleccionado)
        /\ comuna_barrio = comuna_principal
        /\ \A d \in known_comunas(barrio_seleccionado) :
              votes(barrio_seleccionado, d) <= votes(barrio_seleccionado, comuna_principal)

\* C6 witness: two comunas tie and the one met second is returned
C6_Witness ==
    /\ Resolved
    /\ Len(comunas_barrio) = 2
    /\ votes(barrio_seleccionado, comunas_barrio[1])
          = votes(barrio_seleccionado, comunas_barrio[2])
    /\ comuna_principal = comunas_barrio[2]

\* C7 as stated, for a selected barrio with a name: the rows resolved together
\* are those whose barrio has the Tier1 form (trim + uppercase) of that barrio.
C7_GroupedByTier1 ==
    (Resolved /\ barrio_seleccionado # <<>>) =>
        Range(comunas_barrio) =
            {df_filtrado[i].comuna_display :
                i \in {j \in 1..Len(df_filtrado) :
                    barrio_norm_tier1(Str(df_filtrado[j].barrio))
                        = barrio_norm_tier1(Str(barrio_seleccionado))}} \ {SinDatos}

Example7 ==
    <<[barrio |-> Str(PA), comuna |-> Int_(14)],
      [barrio |-> Str(PA), comuna |-> Int_(14)],
      [barrio |-> Str(<<"p", "a">>), comuna |-> Int_(7)]>>

\* C7 amended: the rows resolved together are those whose raw barrio, trimmed
\* of surrounding whitespace, is the selected barrio, case kept; for
\* [("PA",14),("PA",14),("pa",7)] barrio "PA" gets comuna 14 without warning or
\* breakdown and barrio "pa" gets comuna 7.
C7_GroupedByTrimmedName ==
    Resolved =>
        /\ Range(comunas_barrio) =
              {limpiar_comuna(to_numeric(csv[i].comuna)) :
                  i \in {j \in 1..Len(csv) :
                      /\ isinstance_str(csv[j].barrio)
                      /\ strip(csv[j].barrio.s) = barrio_seleccionado}} \ {SinDatos}
        /\ (csv = Example7 /\ barrio_seleccionado = PA) =>
              /\ comuna_principal = <<"1", "4">>
              /\ comunas_barrio = <<(<<"1", "4">>)>>
              /\ ~aviso_multi
              /\ comuna_data = <<>>
        /\ (csv = Example7 /\ barrio_seleccionado = <<"p", "a">>) =>
              comuna_principal = <<"7">>

\* C7 witness: " PA" and "PA" rows are resolved together (two comunas) while a
\* "pa" row with a third value stays apart
C7_Witness ==
    /\ Resolved
    /\ barrio_seleccionado = PA
    /\ csv = <<[barrio |-> Str(<<" ", "P", "A">>), comuna |-> Int_(14)],
               [barrio |-> Str(PA), comuna |-> Int_(7)],
               [barrio |-> Str(<<"p", "a">>), comuna |-> Int_(0)]>>
    /\ comunas_barrio = <<(<<"1", "4">>), (<<"7">>)>>
    /\ aviso_multi

\* C8: the multi-comuna warning and the breakdown appear exactly when the rows
\* of the selected barrio carry two or more distinct comunas other than the
\* sentinel; the breakdown then lists each of them with its count.
C8_AmbiguousIffTwoDistricts ==
    Resolved =>
        /\ aviso_multi <=> Cardinality(known_comunas(barrio_seleccionado)) >= 2
        /\ aviso_multi =>
              /\ Len(comuna_data) = Cardinality(known_comunas(barrio_seleccionado))
              /\ {d.Comuna : d \in Range(comuna_data)} = known_comunas(barrio_seleccionado)
              /\ \A d \in Range(comuna_data) :
                    d.Cantidad = votes(barrio_seleccionado, d.Comuna)
        /\ ~aviso_multi => comuna_data = <<>>

\* C8 witness: one known comuna plus sentinel rows, and no warning
C8_Witness ==
    /\ Resolved
    /\ ~aviso_multi
    /\ Cardinality(known_comunas(barrio_seleccionado)) = 1
    /\ votes(barrio_seleccionado, SinDatos) > 0

\* C9: without a row of known comuna the result is "No disponible", no comuna
\* is chosen and the comparison is skipped; otherwise the result is a comuna of
\* the barrio's rows and the comparison is drawn.
C9_NoDistrictData ==
    Resolved =>
        IF known_comunas(barrio_seleccionado) = {}
        THEN /\ comuna_barrio = NoDisponible
             /\ comuna_principal = <<>>
             /\ ~aviso_multi
             /\ ~comparativa
             /\ pc \in {"compare", "done"}
        ELSE /\ comuna_barrio \in known_comunas(barrio_seleccionado)
             /\ comuna_barrio # NoDisponible
             /\ pc \in {"compare", "done"}
             /\ pc = "done" => comparativa

\* C9 witness: the script ended with "No disponible" and no comparison
C9_Witness ==
    /\ pc = "done"
    /\ Resolved
    /\ comuna_barrio = NoDisponible
    /\ votes(barrio_seleccionado, SinDatos) > 0
    /\ ~comparativa

\* a raw cell that is missing, zero, empty or whitespace-only
sin_dato(v) ==
    \/ isna(v)
    \/ eq_zero(v)
    \/ isinstance_str(v) /\ strip(v.s) \in {<<>>, <<"0">>}

\* C10: every missing, zero, empty or whitespace-only raw barrio / comuna is
\* loaded as "Sin datos", and no row with "Sin datos" is in the barrio count
\* table, the comuna count table, the selection lists or the comuna vote.
C10_SentinelAtLoadAndExcluded ==
    (pc \notin {"start", "canon", "canon_done"}) =>
        /\ \A i \in 1..Len(csv) :
              /\ sin_dato(csv[i].barrio) => df_filtrado[i].barrio = SinDatos
              /\ sin_dato(csv[i].comuna) => df_filtrado[i].comuna_display = SinDatos
        /\ SinDatos \notin {r.barrio : r \in groupby_barrio(df_filtrado)}
        /\ SinDatos \notin {r.comuna_display : r \in groupby_comuna(df_filtrado)}
        /\ SinDatos \notin barrios_lista(df_filtrado) \cup comunas_lista(df_filtrado)
        /\ SinDatos \notin Range(comunas_barrio)

(***************************************************************************)
(* The map section's errors (specification Spec).                          *)
(***************************************************************************)
\* the GeoJSON was downloaded and lines 240-252 are behind
IndexBuilt == pc \notin {"start", "map"} /\ e # "RequestException"

\* feature i has the chosen name property, and its value is a string
well_formed(g, i) ==
    /\ has_prop(g[i], barrio_key(g))
    /\ isinstance_str(prop(g[i], barrio_key(g)))

\* the keys of the count table that line 255 computes
tier1_keys(df) == {r.barrio_norm : r \in with_barrio_norm_tier1(groupby_barrio(df))}

\* C11: building the boundary index never fails on malformed feature
\* properties: once the GeoJSON is downloaded, no exception of lines 240-252
\* reaches the handler, every feature with a string name is in the index, and
\* a barrio of the data that equals the Tier1 id of such a feature is matched.
C11_MalformedFeaturesSkipped ==
    (IndexBuilt /\ geo # <<>> /\ \E i \in 1..Len(geo) : well_formed(geo, i)) =>
        /\ e \notin {"IndexError", "KeyError", "AttributeError"}
        /\ Cardinality({i \in 1..Len(geo) : well_formed(geo, i)}) = Len(feature_id)
        /\ \A i \in 1..Len(geo) :
              (well_formed(geo, i)
                 /\ upper(prop(geo[i], barrio_key(geo)).s) \in tier1_keys(df_filtrado))
              => upper(prop(geo[i], barrio_key(geo)).s) \in tier1_coincidentes

\* C12: with an empty filtered incident set the map section completes without
\* an uncaught exception: the count table is empty, the matched set is empty,
\* and the handler of line 338 that runs afterwards ends normally.
C12_EmptyInputCompletes ==
    (df_filtrado = <<>> /\ pc # "start") =>
        /\ delitos_por_barrio = {}
        /\ delitos_por_barrio_filtrado = {}
        /\ pc # "crashed"
        /\ mapa \notin {"NameError", "ValueError"}

(***************************************************************************)
(* The choropleth and its fallback (specification SpecLive: the script     *)
(* runs top to bottom and no statement of the map section waits; only      *)
(* requests.get of line 235 can take long, and then it raises).            *)
(***************************************************************************)
\* inputs: the barrios "PA", "NUN~ " and "X"; the features "Pa", "Núñ" and one
\* without the name property
BarriosLive == {Str(PA), Str(<<"N", "U", "N_TILDE", " ">>), Str(<<"X">>)}

FeaturesLive ==
    {Feature(Str(<<"P", "a">>)), Feature(Str(<<"N", "u_acute", "n_tilde">>)),
     <<<<"COMUNA", Int_(14)>>>>}

InitLive ==
    /\ pc = "start"
    /\ csv \in SeqsUpTo([barrio : BarriosLive, comuna : {Int_(14)}], MaxRows)
    /\ geo \in SeqsUpTo(FeaturesLive, MaxFeatures)
    /\ df_filtrado = <<>>
    /\ MapIdle
    /\ ResIdle
    /\ entrada = [a |-> NaN, b |-> NaN]
    /\ salida = NoSalida

SpecLive == InitLive /\ [][Next]_vars /\ WF_vars(Next)

\* both tiers were tried and the test of line 305 finds no matched row
NoGeographicMatch ==
    pc = "render" /\ tier2_ran /\ delitos_por_barrio_filtrado = {}

\* C13: whenever the matched set is empty after both tiers, the choropleth is
\* not drawn and control reaches the handler of line 338, which holds the
\* density map; the choropleth is drawn only with at least one matched row,
\* and once it is drawn the handler is never entered.
C13_FallbackIffNoMatch ==
    /\ [][NoGeographicMatch => (pc' = "except" /\ mapa' # "choropleth")]_vars
    /\ NoGeographicMatch ~> (pc = "except" /\ e = "Exception" /\ mapa # "choropleth")
    /\ [](mapa = "choropleth" =>
            /\ delitos_por_barrio_filtrado # {}
            /\ e = "none"
            /\ pc \notin {"except", "crashed"})
    /\ []((pc = "render" /\ delitos_por_barrio_filtrado = {}) => tier2_ran)

C13_Witness ==
    /\ pc = "except"
    /\ e = "Exception"
    /\ tier2_ran
    /\ delitos_por_barrio # {}
    /\ feature_id # <<>>
    /\ delitos_por_barrio_filtrado = {}
    /\ mapa = "none"

(***************************************************************************)
(* The keys handed to the choropleth (specification Spec).                 *)
(***************************************************************************)
\* locations='barrio_norm' of line 309
locations == {r.barrio_norm : r \in delitos_por_barrio_filtrado}

\* C14: when the choropleth is drawn, every barrio_norm of the matched table is
\* the id of a feature of the GeoJSON given to the renderer, and ids and keys
\* are of one tier: after Tier2 both are normalizar_texto of the name, without
\* it both are the Tier1 form.
C14_LocationsAreFeatureIds ==
    mapa = "choropleth" =>
        /\ \A l \in locations : \E i \in 1..Len(feature_id) : feature_id[i] = l
        /\ Len(feature_id) = Len(geo)
        /\ IF tier2_ran
           THEN /\ \A i \in 1..Len(geo) :
                      feature_id[i] = normalizar_texto(prop(geo[i], barrio_key(geo)))
                /\ \A r \in delitos_por_barrio_filtrado :
                      r.barrio_norm = normalizar_texto(Str(r.barrio))
           ELSE /\ \A i \in 1..Len(geo) :
                      feature_id[i] = upper(prop(geo[i], barrio_key(geo)).s)
                /\ \A r \in delitos_por_barrio_filtrado :
                      r.barrio_norm = strip(upper(r.barrio))

\* a choropleth drawn from a Tier2 match whose key differs from the Tier1 key
C14_Witness ==
    /\ mapa = "choropleth"
    /\ tier2_ran
    /\ \E r \in delitos_por_barrio_filtrado :
          /\ r.barrio_norm # strip(upper(r.barrio))
          /\ \E i \in 1..Len(geo) :
                /\ feature_id[i] = r.barrio_norm
                /\ feature_id[i] # upper(prop(geo[i], barrio_key(geo)).s)

(***************************************************************************)
(* The canonicalisers as pure functions: every pair of inputs from a       *)
(* bounded set, both tiers applied to each and re-applied to the result.   *)
(***************************************************************************)
CanonChars == {"i", "dotless_i", "n_tilde", " ", "-", "1"}

RECURSIVE Texts(_, _)
Texts(chars, n) ==
    IF n = 0 THEN {<<>>}
    ELSE LET shorter == Texts(chars, n - 1)
         IN  shorter \cup {<<c>> \o s : c \in chars, s \in {x \in shorter : Len(x) = n - 1}}

CanonInputs ==
    {Str(s) : s \in Texts(CanonChars, MaxLen)} \cup {Int_(7), Int_(-3), NaN}

InitCanon ==
    /\ pc = "canon"
    /\ entrada \in [a : CanonInputs, b : CanonInputs]
    /\ salida = NoSalida
    /\ csv = <<>>
    /\ geo = <<>>
    /\ df_filtrado = <<>>
    /\ MapIdle
    /\ ResIdle

Canonicalizar ==
    /\ pc = "canon"
    /\ pc' = "canon_done"
    /\ salida' = [a1  |-> barrio_norm_tier1(entrada.a),
                  b1  |-> barrio_norm_tier1(entrada.b),
                  a2  |-> normalizar_texto(entrada.a),
                  b2  |-> normalizar_texto(entrada.b),
                  a11 |-> barrio_norm_tier1(barrio_norm_tier1(entrada.a)),
                  a22 |-> normalizar_texto(Str(normalizar_texto(entrada.a)))]
    /\ UNCHANGED <<entrada, csv, geo, df_filtrado, mapVars, resVars>>

NextCanon == Canonicalizar

SpecCanon == InitCanon /\ [][NextCanon]_vars

\* C4: whenever Tier1 (trim + uppercase) gives two inputs the same canonical
\* text, Tier2 (normalizar_texto) gives them the same text too.
C4_Tier1EqualImpliesTier2Equal ==
    (pc = "canon_done" /\ salida.a1.t = "str" /\ salida.a1 = salida.b1)
        => salida.a2 = salida.b2

\* C5: both canonicalisers are idempotent on every input, string or not:
\* applied to their own output they return it unchanged.
C5_CanonicalizationIdempotent ==
    pc = "canon_done" =>
        /\ salida.a11 = salida.a1
        /\ salida.a22 = salida.a2

====
